---------------------------- MODULE Spec2Model ----------------------------
(***************************************************************************)
(* crazypdf: text reconstruction from positioned glyph runs.               *)
(*                                                                         *)
(* Coordinates.  X and FontSize are held in points; Y is held in half      *)
(* points so that 101.5 is the integer 203.  The float64 arithmetic of the *)
(* source is modelled by exact rational arithmetic: every quotient is kept *)
(* as a pair <<numerator, denominator>> with a positive denominator and    *)
(* every comparison is made by cross multiplication.                       *)
(*                                                                         *)
(* Strings are sequences of one-character strings.                         *)
(***************************************************************************)
EXTENDS Integers, Sequences, FiniteSets, TLC

VARIABLES
    pages,        \* what the underlying reader holds: one entry per page
    closed,       \* Document.closed
    readerCloses, \* number of calls of Reader.Close so far
    lateReads,    \* number of reader accesses made after Reader.Close
    ret,          \* the last call and what it returned
    calls         \* the PageText calls of concurrent workers, each with its
                  \* position and its local variables

vars == <<pages, closed, readerCloses, lateReads, ret, calls>>

-----------------------------------------------------------------------------
(* Bounds of the explored inputs *)

MaxRuns == 3    \* glyph runs in the row of a page
MaxPages == 3   \* pages of one document
MaxRows == 3    \* rows of one page
MaxWorkers == 2 \* goroutines calling PageText at the same time

-----------------------------------------------------------------------------
(* Sequences and strings *)

SP == " "
NL == "\n"

RECURSIVE Flatten(_)
Flatten(ss) ==
    IF ss = <<>> THEN <<>> ELSE Head(ss) \o Flatten(Tail(ss))

\* (variant: the separator is written after every element, the last included)
JoinWith_trailing(ss, sep) == Flatten([i \in 1..Len(ss) |-> ss[i] \o sep])

RECURSIVE JoinWith(_, _)
JoinWith(ss, sep) ==
    IF ss = <<>> THEN <<>>
    ELSE IF Len(ss) = 1 THEN ss[1]
    ELSE ss[1] \o sep \o JoinWith(Tail(ss), sep)

\* the sequence without its i-th element
Without(s, i) == SubSeq(s, 1, i - 1) \o SubSeq(s, i + 1, Len(s))

Abs(x) == IF x < 0 THEN -x ELSE x

\* Go's float-to-int conversion of the quotient a / b (b > 0): truncation
\* toward zero.
TruncDiv(a, b) == IF a >= 0 THEN a \div b ELSE -((-a) \div b)

-----------------------------------------------------------------------------
(* sort.Slice: the result is some permutation of the input in which no     *)
(* element is less than an earlier one.  The order among elements that the *)
(* comparison does not separate is not fixed by sort.Slice ("the sort is   *)
(* not guaranteed to be stable"), so every such order is an outcome.       *)

LessX(a, b) == a.X < b.X

LessYX(a, b) == IF a.Y # b.Y THEN a.Y > b.Y ELSE a.X < b.X

\* sort.Slice by LessX: an element none is less than comes first
RECURSIVE SortSliceX(_)
SortSliceX(items) ==
    IF items = <<>> THEN {<<>>}
    ELSE UNION {{<<items[i]>> \o rest : rest \in SortSliceX(Without(items, i))} :
                i \in {k \in 1..Len(items) :
                          \A m \in 1..Len(items) : ~LessX(items[m], items[k])}}

\* sort.Slice by LessYX
RECURSIVE SortSliceYX(_)
SortSliceYX(items) ==
    IF items = <<>> THEN {<<>>}
    ELSE UNION {{<<items[i]>> \o rest : rest \in SortSliceYX(Without(items, i))} :
                i \in {k \in 1..Len(items) :
                          \A m \in 1..Len(items) : ~LessYX(items[m], items[k])}}

\* (variant: the copy of the row is used as it is, never sorted)
SortedItems_asGiven(content) == {content}

\* the row's items after sort.Slice by X (PagePlainText)
SortedItems(content) == SortSliceX(content)

\* (variant: the copy of the words is used as it is, never sorted)
SortedWords_asGiven(words) == {words}

\* the row's words after sort.Slice by X (extractRawText)
SortedWords(words) == SortSliceX(words)

\* the page's styled texts after sort.Slice by Y descending, then X
SortedStyledTexts(styledTexts) == SortSliceYX(styledTexts)

\* (variant: the texts of a line stay in the order the grouping left them)
SortedLineTexts_asGrouped(texts) == {texts}

\* a line's texts after sort.Slice by X (PhysicalLayoutText)
SortedLineTexts(texts) == SortSliceX(texts)

-----------------------------------------------------------------------------
(* Reader.PagePlainText, the row loop: the Conservative word joiner *)

\* The estimation loop over the x-sorted items: the smallest positive
\* (curr.X - prev.X) / len(prev.S), as <<num, den>>; <<0, 1>> when none.
\* (variant: the largest positive advance is kept)
RECURSIVE MinAdvance_largest(_, _, _)
MinAdvance_largest(items, j, acc) ==
    IF j > Len(items) THEN acc
    ELSE LET prev == items[j - 1]
             curr == items[j]
             n == curr.X - prev.X
             d == Len(prev.S)
         IN  IF d > 0 /\ n > 0 /\ (acc[1] = 0 \/ n * acc[2] > acc[1] * d)
             THEN MinAdvance_largest(items, j + 1, <<n, d>>)
             ELSE MinAdvance_largest(items, j + 1, acc)

RECURSIVE MinAdvance(_, _, _)
MinAdvance(items, j, acc) ==
    IF j > Len(items) THEN acc
    ELSE LET prev == items[j - 1]
             curr == items[j]
             n == curr.X - prev.X
             d == Len(prev.S)
         IN  IF d > 0 /\ n > 0 /\ (acc[1] = 0 \/ n * acc[2] < acc[1] * d)
             THEN MinAdvance(items, j + 1, <<n, d>>)
             ELSE MinAdvance(items, j + 1, acc)

DefaultFontSize == 12

\* fontSize * 0.6 of the first item, 12 * 0.6 when its font size is <= 0
FallbackWidth(items) ==
    LET fontSize == IF items[1].FontSize <= 0 THEN DefaultFontSize
                    ELSE items[1].FontSize
    IN  <<3 * fontSize, 5>>

\* (variant: the width is always taken from the font size)
MinCharWidth_fontOnly(items) == FallbackWidth(items)

MinCharWidth(items) ==
    LET m == MinAdvance(items, 2, <<0, 1>>)
    IN  IF m[1] = 0 THEN FallbackWidth(items) ELSE m

\* (variant: the comparison is >=, not >)
PlainGapIsSpace_orEqual(prev, curr, w) ==
    2 * ((curr.X - prev.X) * w[2] - Len(prev.S) * w[1]) >= w[1]

\* gap > minCharWidth * 0.5, where
\* gap = curr.X - (prev.X + len(prev.S) * minCharWidth) and w = minCharWidth
PlainGapIsSpace(prev, curr, w) ==
    2 * ((curr.X - prev.X) * w[2] - Len(prev.S) * w[1]) > w[1]

RECURSIVE PlainTail(_, _, _)
PlainTail(items, j, w) ==
    IF j > Len(items) THEN <<>>
    ELSE (IF PlainGapIsSpace(items[j - 1], items[j], w) THEN <<SP>> ELSE <<>>)
         \o items[j].S \o PlainTail(items, j + 1, w)

\* what one row with sorted items writes to the buffer, the newline excluded
PlainLine(items) ==
    items[1].S \o PlainTail(items, 2, MinCharWidth(items))

\* (variant: a row without items writes nothing, its newline neither)
RECURSIVE PlainRows_skipEmpty(_, _)
PlainRows_skipEmpty(rows, i) ==
    IF i > Len(rows) THEN {<<>>}
    ELSE LET sep == IF i < Len(rows) THEN <<NL>> ELSE <<>>
             here == IF Len(rows[i]) = 0 THEN {<<>>}
                     ELSE {PlainLine(items) \o sep :
                              items \in SortedItems(rows[i])}
         IN  {h \o t : h \in here, t \in PlainRows_skipEmpty(rows, i + 1)}

\* the buffers the loop can leave after rows i..len(rows)
RECURSIVE PlainRows(_, _)
PlainRows(rows, i) ==
    IF i > Len(rows) THEN {<<>>}
    ELSE LET sep == IF i < Len(rows) THEN <<NL>> ELSE <<>>
             here == IF Len(rows[i]) = 0 THEN {sep}
                     ELSE {PlainLine(items) \o sep :
                              items \in SortedItems(rows[i])}
         IN  {h \o t : h \in here, t \in PlainRows(rows, i + 1)}

-----------------------------------------------------------------------------
(* extract.extractRawText, the row loop: the Stream-Order word joiner *)

RawFontSize(prev, curr) ==
    IF prev.FontSize > 0 THEN prev.FontSize
    ELSE IF curr.FontSize > 0 THEN curr.FontSize
    ELSE DefaultFontSize

\* (variant: the threshold of the Conservative policy, 0.5, is used)
RawGapIsSpace_half(prev, curr) ==
    LET fontSize == RawFontSize(prev, curr)
    IN  20 * (curr.X - prev.X) - 10 * Len(prev.S) * fontSize > 5 * fontSize

\* gap > avgCharWidth * 0.3 with avgCharWidth = fontSize * 0.5 and
\* gap = curr.X - (prev.X + len(prev.S) * avgCharWidth), all times 20
RawGapIsSpace(prev, curr) ==
    LET fontSize == RawFontSize(prev, curr)
    IN  20 * (curr.X - prev.X) - 10 * Len(prev.S) * fontSize > 3 * fontSize

RECURSIVE RawTail(_, _)
RawTail(words, j) ==
    IF j > Len(words) THEN <<>>
    ELSE (IF RawGapIsSpace(words[j - 1], words[j]) THEN <<SP>> ELSE <<>>)
         \o words[j].S \o RawTail(words, j + 1)

RawLine(words) == words[1].S \o RawTail(words, 2)

RECURSIVE RawRows(_, _)
RawRows(rows, i) ==
    IF i > Len(rows) THEN {<<>>}
    ELSE LET sep == IF i < Len(rows) THEN <<NL>> ELSE <<>>
             here == IF Len(rows[i]) = 0 THEN {sep}
                     ELSE {RawLine(words) \o sep :
                              words \in SortedWords(rows[i])}
         IN  {h \o t : h \in here, t \in RawRows(rows, i + 1)}

-----------------------------------------------------------------------------
(* Reader.PageStyledTexts and Reader.PhysicalLayoutText: the Line          *)
(* Assembler and the Physical Grid Renderer                                *)

\* the rows flattened, one StyledText per word, in row order
StyledTextsOf(rows) ==
    LET all == Flatten(rows)
    IN  [i \in 1..Len(all) |->
            [Text |-> all[i].S, X |-> all[i].X, Y |-> all[i].Y,
             FontSize |-> all[i].FontSize]]

yTolerance == 2
charsPerLine == 80
DefaultPageWidth == 612

\* (variant: the distance is taken from the last text put on the line)
FarFromLine_fromLast(line, st) ==
    Abs(line.texts[Len(line.texts)].Y - st.Y) > 2 * yTolerance

\* abs(currentLine.y - st.Y) > yTolerance; Y is in half points
FarFromLine(line, st) == Abs(line.y - st.Y) > 2 * yTolerance

\* the grouping loop over the sorted texts, from index k on
RECURSIVE GroupLines(_, _, _)
GroupLines(sts, k, lines) ==
    IF k > Len(sts) THEN lines
    ELSE LET st == sts[k]
             n == Len(lines)
         IN  IF n = 0 \/ FarFromLine(lines[n], st)
             THEN GroupLines(sts, k + 1,
                             Append(lines, [y |-> st.Y, texts |-> <<st>>]))
             ELSE GroupLines(sts, k + 1,
                             [lines EXCEPT ![n].texts = Append(@, st)])

\* (variant: the width put in place of a non-positive one is 80)
EffectivePageWidth_unit(pageWidth) ==
    IF pageWidth <= 0 THEN charsPerLine ELSE pageWidth

EffectivePageWidth(pageWidth) ==
    IF pageWidth <= 0 THEN DefaultPageWidth ELSE pageWidth

\* (variant: a text that would run past the grid is moved left to fit)
Column_shifted(st, pageWidth) ==
    LET col == TruncDiv(st.X * charsPerLine, pageWidth)
    IN  IF col < 0 THEN 0
        ELSE IF col + Len(st.Text) > charsPerLine
             THEN charsPerLine - Len(st.Text)
        ELSE col

\* col := int(st.X / charWidth) with charWidth = pageWidth / 80, clamped
Column(st, pageWidth) ==
    LET col == TruncDiv(st.X * charsPerLine, pageWidth)
    IN  IF col < 0 THEN 0
        ELSE IF col >= charsPerLine THEN charsPerLine - 1
        ELSE col

\* the byte loop of one text: lineChars[pos] = ch for every byte ch of the
\* text whose pos = col + ci is < 80 (lineChars is held 1-based: position
\* pos is index pos + 1)
WriteText(lineChars, st, pageWidth) ==
    LET col == Column(st, pageWidth)
        kept == IF col + Len(st.Text) <= charsPerLine THEN Len(st.Text)
                ELSE charsPerLine - col
    IN  SubSeq(lineChars, 1, col) \o SubSeq(st.Text, 1, kept)
            \o SubSeq(lineChars, col + kept + 1, charsPerLine)

RECURSIVE WriteTexts(_, _, _, _)
WriteTexts(lineChars, texts, k, pageWidth) ==
    IF k > Len(texts) THEN lineChars
    ELSE WriteTexts(WriteText(lineChars, texts[k], pageWidth),
                    texts, k + 1, pageWidth)

\* the index loop of trimRight: i-- while i >= 0 and s[i] = ' ' (1-based)
RECURSIVE LastNonSpace(_, _)
LastNonSpace(s, i) ==
    IF i >= 1 /\ s[i] = SP THEN LastNonSpace(s, i - 1) ELSE i

\* (variant: the slice ends one byte early, s[:i] for s[:i+1])
trimRight_oneMore(s) == SubSeq(s, 1, LastNonSpace(s, Len(s)) - 1)

trimRight(s) == SubSeq(s, 1, LastNonSpace(s, Len(s)))

RECURSIVE Spaces(_)
Spaces(n) == IF n = 0 THEN <<>> ELSE <<SP>> \o Spaces(n - 1)

BlankLine == Spaces(charsPerLine)

\* one line rendered from its x-sorted texts
RenderLine(texts, pageWidth) ==
    trimRight(WriteTexts(BlankLine, texts, 1, pageWidth))

\* (variant: a newline is written after every line, the last included)
RECURSIVE RenderLines_trailing(_, _, _)
RenderLines_trailing(lines, i, pageWidth) ==
    IF i > Len(lines) THEN {<<>>}
    ELSE LET here == {RenderLine(texts, pageWidth) \o <<NL>> :
                         texts \in SortedLineTexts(lines[i].texts)}
         IN  {h \o t : h \in here,
                       t \in RenderLines_trailing(lines, i + 1, pageWidth)}

\* the buffers the rendering loop can leave after lines i..len(lines)
RECURSIVE RenderLines(_, _, _)
RenderLines(lines, i, pageWidth) ==
    IF i > Len(lines) THEN {<<>>}
    ELSE LET sep == IF i < Len(lines) THEN <<NL>> ELSE <<>>
             here == {RenderLine(texts, pageWidth) \o sep :
                         texts \in SortedLineTexts(lines[i].texts)}
         IN  {h \o t : h \in here, t \in RenderLines(lines, i + 1, pageWidth)}

\* the Lines the assembler can build from the styled texts
AssembledLines(styledTexts) ==
    {GroupLines(sts, 1, <<>>) : sts \in SortedStyledTexts(styledTexts)}

\* the strings PhysicalLayoutText can return for styled texts and a width
PhysicalText(styledTexts, pageWidth) ==
    IF Len(styledTexts) = 0 THEN {<<>>}
    ELSE UNION {RenderLines(lines, 1, EffectivePageWidth(pageWidth)) :
                   lines \in AssembledLines(styledTexts)}

-----------------------------------------------------------------------------
(* Errors *)

NoErr == [kind |-> "nil"]
ErrDocumentClosed == [kind |-> "ErrDocumentClosed"]
ErrPageOutOfRange(index, n) ==
    [kind |-> "ErrPageOutOfRange", index |-> index, pages |-> n]
\* fmt.Errorf("page %d is null", pageNum)
PageNullErr(pageNum) == [kind |-> "pageIsNull", page |-> pageNum]
\* fmt.Errorf("failed to get ... for page %d: %w", pageNum, err)
PageRowsErr(pageNum) ==
    [kind |-> "failedToGet", page |-> pageNum, cause |-> [kind |-> "rowSource"]]
\* fmt.Errorf("failed to extract text from page %d: %w", page.Number, err)
ExtractErr(pageNum, err) ==
    [kind |-> "failedToExtract", page |-> pageNum, cause |-> err]

\* the outcome of a call: the value returned, the error returned and the
\* page numbers the call asked of the underlying reader, in order
Outcome(val, err, reads) == [val |-> val, err |-> err, reads |-> reads]

-----------------------------------------------------------------------------
(* internal/pdf Reader: the per-page accessors.  pages[n] holds what the   *)
(* underlying parser gives for page n: fault "null" when page.V.IsNull(),  *)
(* fault "rows" when GetTextByRow fails, and the rows otherwise.           *)

\* (variant: a page without rows is taken for a null page)
ReaderFault_emptyIsNull(pageNum) ==
    IF pages[pageNum].fault = "null" \/ pages[pageNum].rows = <<>>
    THEN PageNullErr(pageNum)
    ELSE IF pages[pageNum].fault = "rows" THEN PageRowsErr(pageNum)
    ELSE NoErr

ReaderFault(pageNum) ==
    IF pages[pageNum].fault = "null" THEN PageNullErr(pageNum)
    ELSE IF pages[pageNum].fault = "rows" THEN PageRowsErr(pageNum)
    ELSE NoErr

ReaderPagePlainText(pageNum) ==
    IF ReaderFault(pageNum) # NoErr
    THEN {Outcome(<<>>, ReaderFault(pageNum), <<pageNum>>)}
    ELSE {Outcome(text, NoErr, <<pageNum>>) :
             text \in PlainRows(pages[pageNum].rows, 1)}

\* one TextRow per row, one TextWord per content item, fields copied
ReaderPageTextByRow(pageNum) ==
    IF ReaderFault(pageNum) # NoErr
    THEN Outcome(<<>>, ReaderFault(pageNum), <<pageNum>>)
    ELSE LET rows == pages[pageNum].rows
         IN  Outcome([i \in 1..Len(rows) |->
                         [j \in 1..Len(rows[i]) |->
                             [S |-> rows[i][j].S, X |-> rows[i][j].X,
                              Y |-> rows[i][j].Y,
                              FontSize |-> rows[i][j].FontSize]]],
                     NoErr, <<pageNum>>)

ReaderPageStyledTexts(pageNum) ==
    IF ReaderFault(pageNum) # NoErr
    THEN Outcome(<<>>, ReaderFault(pageNum), <<pageNum>>)
    ELSE Outcome(StyledTextsOf(pages[pageNum].rows), NoErr, <<pageNum>>)

\* the Contents key: "null" gives (nil, nil), "ioerr" a failed copy
ReaderPageContentStream(pageNum) ==
    IF pages[pageNum].fault = "null"
    THEN Outcome(<<>>, PageNullErr(pageNum), <<pageNum>>)
    ELSE IF pages[pageNum].contents = "null"
    THEN Outcome(<<>>, NoErr, <<pageNum>>)
    ELSE IF pages[pageNum].contents = "ioerr"
    THEN Outcome(<<>>, [kind |-> "failedToRead", page |-> pageNum,
                        cause |-> [kind |-> "io"]], <<pageNum>>)
    ELSE Outcome(<<"bytes">>, NoErr, <<pageNum>>)

ReaderPhysicalLayoutText(pageNum, pageWidth) ==
    LET st == ReaderPageStyledTexts(pageNum)
    IN  IF st.err # NoErr THEN {Outcome(<<>>, st.err, st.reads)}
        ELSE {Outcome(text, NoErr, st.reads) :
                 text \in PhysicalText(st.val, pageWidth)}

-----------------------------------------------------------------------------
(* crazypdf.Page: the accessors of page p.Number = pageNum *)

PagePlainText(pageNum) ==
    IF closed THEN {Outcome(<<>>, ErrDocumentClosed, <<>>)}
    ELSE ReaderPagePlainText(pageNum)

\* (variant: no closed check before the reader is asked)
PageTextByRow_unchecked(pageNum) == ReaderPageTextByRow(pageNum)

PageTextByRow(pageNum) ==
    IF closed THEN Outcome(<<>>, ErrDocumentClosed, <<>>)
    ELSE ReaderPageTextByRow(pageNum)

PageStyledTexts(pageNum) ==
    IF closed THEN Outcome(<<>>, ErrDocumentClosed, <<>>)
    ELSE ReaderPageStyledTexts(pageNum)

PageContentStream(pageNum) ==
    IF closed THEN Outcome(<<>>, ErrDocumentClosed, <<>>)
    ELSE ReaderPageContentStream(pageNum)

PagePhysicalLayoutText(pageNum, pageWidth) ==
    IF closed THEN {Outcome(<<>>, ErrDocumentClosed, <<>>)}
    ELSE ReaderPhysicalLayoutText(pageNum, pageWidth)

-----------------------------------------------------------------------------
(* extract: options *)

LayoutSimple == 0
LayoutRaw == 1
LayoutPhysical == 2

WithLayout(mode) == [opt |-> "Layout", layout |-> mode]
WithPageSeparator(sep) == [opt |-> "PageSeparator", sep |-> sep]
WithPageWidth(width) == [opt |-> "PageWidth", width |-> width]

defaultConfig ==
    [Layout |-> LayoutSimple, PageSeparator |-> <<NL, NL>>,
     PageWidth |-> DefaultPageWidth]

RECURSIVE applyFrom(_, _, _)
applyFrom(opts, k, cfg) ==
    IF k > Len(opts) THEN cfg
    ELSE LET o == opts[k]
         IN  applyFrom(opts, k + 1,
                 IF o.opt = "Layout" THEN [cfg EXCEPT !.Layout = o.layout]
                 ELSE IF o.opt = "PageSeparator"
                      THEN [cfg EXCEPT !.PageSeparator = o.sep]
                 ELSE [cfg EXCEPT !.PageWidth = o.width])

applyOptions(opts) == applyFrom(opts, 1, defaultConfig)

-----------------------------------------------------------------------------
(* extract: Text, PageText, AllPages, extractRawText *)

extractRawText(pageNum) ==
    LET r == PageTextByRow(pageNum)
    IN  IF r.err # NoErr THEN {Outcome(<<>>, r.err, r.reads)}
        ELSE {Outcome(text, NoErr, r.reads) : text \in RawRows(r.val, 1)}

\* (variant: a layout outside the three modes is extracted as Raw)
PageTextOutcomes_defaultRaw(pageNum, opts) ==
    LET cfg == applyOptions(opts)
    IN  IF cfg.Layout = LayoutSimple THEN PagePlainText(pageNum)
        ELSE IF cfg.Layout = LayoutPhysical
             THEN PagePhysicalLayoutText(pageNum, cfg.PageWidth)
        ELSE extractRawText(pageNum)

PageTextOutcomes(pageNum, opts) ==
    LET cfg == applyOptions(opts)
    IN  IF cfg.Layout = LayoutSimple THEN PagePlainText(pageNum)
        ELSE IF cfg.Layout = LayoutRaw THEN extractRawText(pageNum)
        ELSE IF cfg.Layout = LayoutPhysical
             THEN PagePhysicalLayoutText(pageNum, cfg.PageWidth)
        ELSE PagePlainText(pageNum)

\* (variant: on an error the pages extracted so far are returned with it)
RECURSIVE AllPagesFrom_partial(_, _, _, _)
AllPagesFrom_partial(k, opts, result, reads) ==
    IF k > Len(pages) THEN {Outcome(result, NoErr, reads)}
    ELSE UNION {
           IF o.err # NoErr
           THEN {Outcome(result, ExtractErr(k, o.err), reads \o o.reads)}
           ELSE AllPagesFrom_partial(k + 1, opts, Append(result, o.val),
                                     reads \o o.reads) :
           o \in PageTextOutcomes(k, opts)}

\* the loop over doc.Pages() from page k on, result and reads so far given
RECURSIVE AllPagesFrom(_, _, _, _)
AllPagesFrom(k, opts, result, reads) ==
    IF k > Len(pages) THEN {Outcome(result, NoErr, reads)}
    ELSE UNION {
           IF o.err # NoErr
           THEN {Outcome(<<>>, ExtractErr(k, o.err), reads \o o.reads)}
           ELSE AllPagesFrom(k + 1, opts, Append(result, o.val),
                             reads \o o.reads) :
           o \in PageTextOutcomes(k, opts)}

AllPagesOutcomes(opts) ==
    IF closed THEN {Outcome(<<>>, ErrDocumentClosed, <<>>)}
    ELSE AllPagesFrom(1, opts, <<>>, <<>>)

TextOutcomes(opts) ==
    IF closed THEN {Outcome(<<>>, ErrDocumentClosed, <<>>)}
    ELSE {IF o.err # NoErr THEN Outcome(<<>>, o.err, o.reads)
          ELSE Outcome(JoinWith(o.val, applyOptions(opts).PageSeparator),
                       NoErr, o.reads) :
          o \in AllPagesOutcomes(opts)}

-----------------------------------------------------------------------------
(* crazypdf.Document *)

DocumentNumPages == Len(pages)

\* Document.Pages(): the pages, each given by its Number
DocumentPages == [i \in 1..Len(pages) |-> i]

\* Document.Page(index), index 0-based; the value is the page's Number
DocumentPage(index) ==
    IF closed THEN Outcome(0, ErrDocumentClosed, <<>>)
    ELSE IF index < 0 \/ index >= Len(pages)
    THEN Outcome(0, ErrPageOutOfRange(index, Len(pages)), <<>>)
    ELSE Outcome(index + 1, NoErr, <<>>)

-----------------------------------------------------------------------------
(* The calls a client makes, one action per exported operation *)

NoCall == [op |-> "none"]

Returned(op, args, o) ==
    [op |-> op, args |-> args, val |-> o.val, err |-> o.err, reads |-> o.reads]

\* a call that leaves the document as it is and returns outcome o
Observe(op, args, o) ==
    /\ ret' = Returned(op, args, o)
    /\ lateReads' = (lateReads \/ (o.reads # <<>> /\ readerCloses > 0))
    /\ UNCHANGED <<pages, closed, readerCloses, calls>>

PageText(pageNum, opts) ==
    \E o \in PageTextOutcomes(pageNum, opts) :
        Observe("PageText", [page |-> pageNum, opts |-> opts], o)

AllPages(opts) ==
    \E o \in AllPagesOutcomes(opts) :
        Observe("AllPages", [opts |-> opts], o)

Text(opts) ==
    \E o \in TextOutcomes(opts) :
        Observe("Text", [opts |-> opts], o)

PlainText(pageNum) ==
    \E o \in PagePlainText(pageNum) :
        Observe("PlainText", [page |-> pageNum], o)

TextByRow(pageNum) ==
    Observe("TextByRow", [page |-> pageNum], PageTextByRow(pageNum))

StyledTexts(pageNum) ==
    Observe("StyledTexts", [page |-> pageNum], PageStyledTexts(pageNum))

ContentStream(pageNum) ==
    Observe("ContentStream", [page |-> pageNum], PageContentStream(pageNum))

PhysicalLayoutText(pageNum, pageWidth) ==
    \E o \in PagePhysicalLayoutText(pageNum, pageWidth) :
        Observe("PhysicalLayoutText",
                [page |-> pageNum, width |-> pageWidth], o)

Page(index) ==
    Observe("Page", [index |-> index], DocumentPage(index))

NumPages ==
    Observe("NumPages", [none |-> 0], Outcome(DocumentNumPages, NoErr, <<>>))

Pages ==
    Observe("Pages", [none |-> 0], Outcome(DocumentPages, NoErr, <<>>))

IsClosed ==
    Observe("IsClosed", [none |-> 0], Outcome(closed, NoErr, <<>>))

\* (variant: no early return, the reader is closed by every call)
Close_again ==
    /\ closed' = TRUE
    /\ readerCloses' = readerCloses + 1
    /\ \E e \in {NoErr, [kind |-> "fileClose"]} :
          ret' = Returned("Close", [closedBefore |-> closed],
                          Outcome(0, e, <<>>))
    /\ UNCHANGED <<pages, lateReads, calls>>

\* Document.Close: the first call closes the reader, whose own Close may
\* return the error of closing the file; later calls return nil
Close ==
    IF closed
    THEN /\ ret' = Returned("Close", [closedBefore |-> TRUE],
                             Outcome(0, NoErr, <<>>))
         /\ UNCHANGED <<pages, closed, readerCloses, lateReads, calls>>
    ELSE /\ closed' = TRUE
         /\ readerCloses' = readerCloses + 1
         /\ \E e \in {NoErr, [kind |-> "fileClose"]} :
               ret' = Returned("Close", [closedBefore |-> FALSE],
                               Outcome(0, e, <<>>))
         /\ UNCHANGED <<pages, lateReads, calls>>

-----------------------------------------------------------------------------
(* Inputs *)

Chars(str) ==
    CASE str = "" -> <<>>
      [] str = "a" -> <<"a">>
      [] str = "bc" -> <<"b", "c">>
      [] str = "abcde" -> <<"a", "b", "c", "d", "e">>

Runs(texts, xs, ys, sizes) ==
    {[S |-> Chars(t), X |-> x, Y |-> y, FontSize |-> f] :
        t \in texts, x \in xs, y \in ys, f \in sizes}

\* the rows of a page: none for n = -1, else one row, the n runs of row
OneRow(n, row) == IF n < 0 THEN <<>> ELSE <<row>>

GoodPage(rows) == [fault |-> "none", rows |-> rows, contents |-> "data"]

OpenedWith(ps) ==
    /\ pages = ps
    /\ closed = FALSE
    /\ readerCloses = 0
    /\ lateReads = FALSE
    /\ ret = NoCall
    /\ calls = <<>>

-----------------------------------------------------------------------------
(* SpecJoin: the word joiners on one page *)

JoinRuns == Runs({"a", "abcde"}, {-2, 0, 11, 12}, {200}, {0, 4})

JoinOpts == {<<WithLayout(LayoutSimple)>>, <<WithLayout(LayoutRaw)>>}

InitJoin ==
    \E n \in -1..MaxRuns : \E row \in [1..n -> JoinRuns] :
        OpenedWith(<<GoodPage(OneRow(n, row))>>)

\* one extraction call on the freshly opened document
NextJoin == ret = NoCall /\ \E opts \in JoinOpts : PageText(1, opts)

SpecJoin == InitJoin /\ [][NextJoin]_vars

-----------------------------------------------------------------------------
(* SpecWidth: the Conservative joiner on one row whose runs may have an    *)
(* empty text, lie at the same x or far apart, and have no font size       *)

WidthRuns == Runs({"", "a", "bc"}, {0, 4, 100}, {200}, {0, 10})

InitWidth ==
    \E n \in -1..MaxRuns : \E row \in [1..n -> WidthRuns] :
        OpenedWith(<<GoodPage(OneRow(n, row))>>)

NextWidth == ret = NoCall /\ PageText(1, <<WithLayout(LayoutSimple)>>)

SpecWidth == InitWidth /\ [][NextWidth]_vars

-----------------------------------------------------------------------------
(* SpecPhys: one page in every layout mode; the runs lie 3.0 points apart *)
(* or level, and the widths put them on, before and past the grid          *)

PhysRuns == Runs({"a", "abcde"}, {-2, 12}, {200, 206}, {10})

PhysWidths == {-1, 0, 10, 612}

InitPhys ==
    \E n \in -1..MaxRuns : \E row \in [1..n -> PhysRuns] :
        OpenedWith(<<GoodPage(OneRow(n, row))>>)

PhysOpts ==
    {<<WithLayout(LayoutPhysical), WithPageWidth(w)>> : w \in PhysWidths}
        \cup {<<WithLayout(LayoutPhysical)>>} \cup JoinOpts

\* one extraction call on the freshly opened document
NextPhys == ret = NoCall /\ \E opts \in PhysOpts : PageText(1, opts)

SpecPhys == InitPhys /\ [][NextPhys]_vars

-----------------------------------------------------------------------------
(* SpecOverlap: one page in Physical mode whose runs all fall on one Line, *)
(* at two heights, and cover common columns                                *)

OverlapRuns == Runs({"a", "abcde"}, {-2, 12}, {200, 203}, {10})

OverlapOpts ==
    {<<WithLayout(LayoutPhysical)>>,
     <<WithLayout(LayoutPhysical), WithPageWidth(10)>>}

InitOverlap ==
    \E n \in -1..MaxRuns : \E row \in [1..n -> OverlapRuns] :
        OpenedWith(<<GoodPage(OneRow(n, row))>>)

NextOverlap == ret = NoCall /\ \E opts \in OverlapOpts : PageText(1, opts)

SpecOverlap == InitOverlap /\ [][NextOverlap]_vars

-----------------------------------------------------------------------------
(* SpecTrim: one page in Physical mode whose runs may have an empty text,  *)
(* so that a Line can render to nothing                                    *)

TrimRuns == Runs({"", "a", "abcde"}, {0, 12}, {200, 206}, {10})

TrimOpts ==
    {<<WithLayout(LayoutPhysical), WithPageWidth(w)>> : w \in {0, 10}}

InitTrim ==
    \E n \in -1..MaxRuns : \E row \in [1..n -> TrimRuns] :
        OpenedWith(<<GoodPage(OneRow(n, row))>>)

NextTrim == ret = NoCall /\ \E opts \in TrimOpts : PageText(1, opts)

SpecTrim == InitTrim /\ [][NextTrim]_vars

-----------------------------------------------------------------------------
(* SpecLines: one page in Physical mode; the runs lie at 100.0, 101.5,     *)
(* 102.0 and 103.0 points, so that distances of 1.0, 1.5, 2.0 and 3.0 from *)
(* a Line's anchor all occur                                               *)

LineRuns == Runs({"a"}, {0, 12}, {200, 203, 204, 206}, {10})

InitLines ==
    \E n \in -1..MaxRuns : \E row \in [1..n -> LineRuns] :
        OpenedWith(<<GoodPage(OneRow(n, row))>>)

NextLines == ret = NoCall /\ PageText(1, <<WithLayout(LayoutPhysical)>>)

SpecLines == InitLines /\ [][NextLines]_vars

-----------------------------------------------------------------------------
(* SpecPerm: two pages holding the same runs, the second with two          *)
(* neighbouring runs of its row exchanged                                  *)

PermRuns == Runs({"a", "bc"}, {0, 12}, {200, 206}, {10})

SwapAt(row, j) ==
    [k \in 1..Len(row) |->
        IF k = j THEN row[j + 1] ELSE IF k = j + 1 THEN row[j] ELSE row[k]]

Exchanged(rows) ==
    IF rows = <<>> THEN {rows}
    ELSE {rows} \cup {<<SwapAt(rows[1], j)>> : j \in 1..(Len(rows[1]) - 1)}

PermOpts ==
    {<<WithLayout(LayoutSimple)>>, <<WithLayout(LayoutRaw)>>,
     <<WithLayout(LayoutPhysical)>>}

InitPerm ==
    \E n \in -1..MaxRuns : \E row \in [1..n -> PermRuns] :
        \E other \in Exchanged(OneRow(n, row)) :
            OpenedWith(<<GoodPage(OneRow(n, row)), GoodPage(other)>>)

NextPerm == ret = NoCall /\ \E opts \in PermOpts : AllPages(opts)

SpecPerm == InitPerm /\ [][NextPerm]_vars

-----------------------------------------------------------------------------
(* Spec: a document of up to MaxPages pages and every exported operation  *)

RunA == [S |-> Chars("a"), X |-> 0, Y |-> 200, FontSize |-> 10]
RunB == [S |-> Chars("bc"), X |-> 30, Y |-> 200, FontSize |-> 10]
RunC == [S |-> Chars("abcde"), X |-> 0, Y |-> 170, FontSize |-> 0]

DocPages ==
    {[fault |-> "none", rows |-> <<>>, contents |-> "ioerr"],
     [fault |-> "none", rows |-> <<<<RunA>>>>, contents |-> "null"],
     GoodPage(<<<<RunB, RunA>>, <<>>, <<RunC>>>>),
     [fault |-> "null", rows |-> <<>>, contents |-> "null"],
     [fault |-> "rows", rows |-> <<>>, contents |-> "data"]}

DocOpts ==
    {<<>>,
     <<WithLayout(LayoutRaw), WithPageSeparator(<<"|">>)>>,
     <<WithLayout(LayoutPhysical), WithPageWidth(0)>>,
     <<WithLayout(3)>>,
     <<WithLayout(LayoutPhysical), WithLayout(LayoutSimple)>>}

Init ==
    \E n \in 0..MaxPages : \E ps \in [1..n -> DocPages] : OpenedWith(ps)

Next ==
    \/ \E opts \in DocOpts : Text(opts)
    \/ \E opts \in DocOpts : AllPages(opts)
    \/ \E k \in 1..Len(pages), opts \in DocOpts : PageText(k, opts)
    \/ \E k \in 1..Len(pages) : PlainText(k)
    \/ \E k \in 1..Len(pages) : TextByRow(k)
    \/ \E k \in 1..Len(pages) : StyledTexts(k)
    \/ \E k \in 1..Len(pages) : ContentStream(k)
    \/ \E k \in 1..Len(pages), w \in {0, 100} : PhysicalLayoutText(k, w)
    \/ \E index \in -1..MaxPages : Page(index)
    \/ NumPages
    \/ Pages
    \/ IsClosed
    \/ Close

Spec == Init /\ [][Next]_vars

-----------------------------------------------------------------------------
(* SpecRows: one page of up to MaxRows rows, rows without runs among them, *)
(* in Simple and in Raw mode                                               *)

RowPalette == {<<>>, <<RunA>>, <<RunB, RunA>>, <<RunC>>}

InitRows ==
    \E n \in 0..MaxRows : \E rows \in [1..n -> RowPalette] :
        OpenedWith(<<GoodPage(rows)>>)

NextRows == ret = NoCall /\ \E opts \in JoinOpts : PageText(1, opts)

SpecRows == InitRows /\ [][NextRows]_vars

-----------------------------------------------------------------------------
(* SpecPar: MaxWorkers goroutines call PageText on the pages of one open   *)
(* document.  A call is taken in the steps in which it touches what the    *)
(* goroutines share: it reads Document.closed, it reads the page from the  *)
(* reader, and it joins the rows it holds in its own variables.            *)

IdleCall ==
    [pc |-> "idle", page |-> 0, opts |-> <<>>, rows |-> <<>>,
     val |-> <<>>, err |-> NoErr, overlap |-> FALSE]

InFlight(w) == calls[w].pc \in {"check", "read", "join"}

\* the call of PageText(page, opts...): cfg := applyOptions(opts)
Begin(w, pageNum, opts) ==
    /\ calls[w].pc \in {"idle", "done"}
    /\ calls' =
          [v \in DOMAIN calls |->
              IF v = w
              THEN [IdleCall EXCEPT !.pc = "check", !.page = pageNum,
                                    !.opts = opts,
                                    !.overlap = \E u \in DOMAIN calls :
                                                    u # w /\ InFlight(u)]
              ELSE IF InFlight(v) THEN [calls[v] EXCEPT !.overlap = TRUE]
              ELSE calls[v]]
    /\ UNCHANGED <<pages, closed, readerCloses, lateReads, ret>>

\* if p.doc.closed { return "", ErrDocumentClosed }
CheckClosed(w) ==
    /\ calls[w].pc = "check"
    /\ calls' = [calls EXCEPT ![w] =
                    IF closed
                    THEN [@ EXCEPT !.pc = "done", !.err = ErrDocumentClosed]
                    ELSE [@ EXCEPT !.pc = "read"]]
    /\ UNCHANGED <<pages, closed, readerCloses, lateReads, ret>>

\* page := r.reader.Page(pageNum); rows, err := page.GetTextByRow()
ReadRows(w) ==
    /\ calls[w].pc = "read"
    /\ calls' = [calls EXCEPT ![w] =
                    IF ReaderFault(calls[w].page) # NoErr
                    THEN [@ EXCEPT !.pc = "done",
                                   !.err = ReaderFault(calls[w].page)]
                    ELSE [@ EXCEPT !.pc = "join",
                                   !.rows = pages[calls[w].page].rows]]
    /\ UNCHANGED <<pages, closed, readerCloses, lateReads, ret>>

\* what the layout of the options makes of rows
TextOfRows(rows, opts) ==
    LET cfg == applyOptions(opts)
    IN  IF cfg.Layout = LayoutRaw THEN RawRows(rows, 1)
        ELSE IF cfg.Layout = LayoutPhysical
             THEN PhysicalText(StyledTextsOf(rows), cfg.PageWidth)
        ELSE PlainRows(rows, 1)

\* (variant: the rows are kept in one buffer that the workers share)
WorkerRows_shared(w) ==
    IF \E v \in DOMAIN calls : v # w /\ calls[v].pc = "join"
    THEN calls[CHOOSE v \in DOMAIN calls : v # w /\ calls[v].pc = "join"].rows
    ELSE calls[w].rows

\* the rows the call holds: rows is a variable of the call
WorkerRows(w) == calls[w].rows

\* the loops over the rows, and the return
Join(w) ==
    /\ calls[w].pc = "join"
    /\ \E text \in TextOfRows(WorkerRows(w), calls[w].opts) :
          calls' = [calls EXCEPT ![w] = [@ EXCEPT !.pc = "done", !.val = text]]
    /\ UNCHANGED <<pages, closed, readerCloses, lateReads, ret>>

\* a page whose two runs lie at the same x, a page of three rows and a page
\* whose rows cannot be read
ParPages ==
    <<GoodPage(<<<<RunA, [RunB EXCEPT !.X = 0]>>>>),
      GoodPage(<<<<RunB, RunA>>, <<>>, <<RunC>>>>),
      [fault |-> "rows", rows |-> <<>>, contents |-> "data"]>>

InitPar ==
    /\ pages = ParPages
    /\ closed = FALSE
    /\ readerCloses = 0
    /\ lateReads = FALSE
    /\ ret = NoCall
    /\ calls = [w \in 1..MaxWorkers |-> IdleCall]

NextPar ==
    \E w \in 1..MaxWorkers :
        \/ \E n \in 1..Len(pages), opts \in PermOpts : Begin(w, n, opts)
        \/ CheckClosed(w)
        \/ ReadRows(w)
        \/ Join(w)

SpecPar == InitPar /\ [][NextPar]_vars

-----------------------------------------------------------------------------
(* Vocabulary of the properties *)

StripWS(s) == SelectSeq(s, LAMBDA c : c \notin {SP, NL})

Has(s, c) == \E i \in 1..Len(s) : s[i] = c

RowTexts(row) == Flatten([j \in 1..Len(row) |-> row[j].S])

\* the run texts of a page, row after row, each row in the order given
PageTexts(rows) == Flatten([i \in 1..Len(rows) |-> RowTexts(rows[i])])

\* the orders of the row's runs in which x never decreases: a run with the
\* least x first, then such an order of the others
RECURSIVE AscendingArrangements(_)
AscendingArrangements(row) ==
    IF row = <<>> THEN {<<>>}
    ELSE UNION {{<<row[i]>> \o rest :
                    rest \in AscendingArrangements(Without(row, i))} :
                i \in {k \in 1..Len(row) :
                          \A m \in 1..Len(row) : row[k].X <= row[m].X}}

XAscending(row) == \A j \in 1..(Len(row) - 1) : row[j].X <= row[j + 1].X

DistinctX(row) == \A i, j \in 1..Len(row) : i # j => row[i].X # row[j].X

\* the run texts of a page, row after row, each row in an ascending-x order
RECURSIVE XOrderedTexts(_, _)
XOrderedTexts(rows, i) ==
    IF i > Len(rows) THEN {<<>>}
    ELSE {RowTexts(a) \o t :
             a \in AscendingArrangements(rows[i]),
             t \in XOrderedTexts(rows, i + 1)}

LayoutOf(call) == applyOptions(call.args.opts).Layout

\* the last call was a successful PageText in Simple or Raw mode
JoinerReturned ==
    /\ ret.op = "PageText"
    /\ ret.err = NoErr
    /\ LayoutOf(ret) \in {LayoutSimple, LayoutRaw}

-----------------------------------------------------------------------------
-----------------------------------------------------------------------------
(* C2: No content loss in any layout mode.  As claimed: every character of *)
(* every run's text appears in the output of every mode, Physical          *)
(* included, and nothing but spaces and newlines is added: every character *)
(* other than space and newline occurs in the output as often as in the    *)
(* run texts of the page.                                                  *)

Count(s, c) == Cardinality({i \in 1..Len(s) : s[i] = c})

Letters == {"a", "b", "c", "d", "e"}

C2_NothingDropped ==
    (ret.op = "PageText" /\ ret.err = NoErr) =>
        \A c \in Letters :
            Count(ret.val, c) = Count(PageTexts(pages[ret.args.page].rows), c)

\* the columns a run covers on the grid, by the rule of the renderer's
\* contract: start at clamp(floor(x / charWidth), 0, 79), stop after 79
GridStart(x, pageWidth) ==
    LET w == IF pageWidth <= 0 THEN 612 ELSE pageWidth
        c == (x * 80) \div w
    IN  IF c < 0 THEN 0 ELSE IF c > 79 THEN 79 ELSE c

Least(a, b) == IF a < b THEN a ELSE b

GridCells(st, pageWidth) ==
    LET first == GridStart(st.X, pageWidth)
    IN  first..Least(first + Len(st.Text) - 1, 79)

Overflows(st, pageWidth) == GridStart(st.X, pageWidth) + Len(st.Text) > 80

\* no run of the line runs past column 79 and no two share a column
LineFitsGrid(texts, pageWidth) ==
    /\ \A i \in 1..Len(texts) : ~Overflows(texts[i], pageWidth)
    /\ \A i, j \in 1..Len(texts) :
          i # j => GridCells(texts[i], pageWidth)
                       \cap GridCells(texts[j], pageWidth) = {}

PageFitsGrid(rows, pageWidth) ==
    \A lines \in AssembledLines(StyledTextsOf(rows)) :
        \A i \in 1..Len(lines) : LineFitsGrid(lines[i].texts, pageWidth)

PhysicalReturned ==
    /\ ret.op = "PageText"
    /\ ret.err = NoErr
    /\ LayoutOf(ret) = LayoutPhysical

WidthOf(call) == applyOptions(call.args.opts).PageWidth

(* C2 as amended: in every mode nothing but spaces and newlines is added;  *)
(* in Simple and Raw mode every character of every run is in the output;   *)
(* in Physical mode it is when no run of the page runs past column 79 and  *)
(* no two runs of one Line cover a common column.                          *)
C2_NothingAddedFittingKept ==
    (ret.op = "PageText" /\ ret.err = NoErr) =>
        LET rows == pages[ret.args.page].rows
        IN  /\ \A i \in 1..Len(ret.val) : ret.val[i] \in Letters \cup {SP, NL}
            /\ \A c \in Letters : Count(ret.val, c) <= Count(PageTexts(rows), c)
            /\ (LayoutOf(ret) # LayoutPhysical
                  \/ PageFitsGrid(rows, WidthOf(ret)))
                 => \A c \in Letters :
                        Count(ret.val, c) = Count(PageTexts(rows), c)

C2_Witness ==
    /\ PhysicalReturned
    /\ Len(Flatten(pages[1].rows)) = 3
    /\ PageFitsGrid(pages[1].rows, WidthOf(ret))
    /\ Has(ret.val, NL)
    /\ \E i \in 1..(Len(ret.val) - 1) :
          ret.val[i] \in Letters /\ ret.val[i + 1] \in Letters
             /\ ret.val[i] # "a"

-----------------------------------------------------------------------------
(* C3: the space decision of the Conservative policy.  For each adjacent   *)
(* pair (prev, curr) of the x-sorted row exactly one space is written      *)
(* before curr.text iff                                                    *)
(*   curr.x - (prev.x + len(prev.text) * minCharWidth) > minCharWidth*0.5  *)
(* and nothing otherwise; with len(prev.text) = 5, minCharWidth = 2.0 and  *)
(* prev.x = 0 there is no space at curr.x = 11 and one at curr.x = 12.     *)

\* the positive per-character advances of the row, as <<num, den>>
Advances(row) ==
    {<<row[j + 1].X - row[j].X, Len(row[j].S)>> :
        j \in {k \in 1..(Len(row) - 1) :
                  Len(row[k].S) > 0 /\ row[k + 1].X > row[k].X}}

\* minCharWidth as the contract words it, as <<num, den>>
ContractWidth(row) ==
    IF Advances(row) # {}
    THEN CHOOSE a \in Advances(row) :
             \A b \in Advances(row) : a[1] * b[2] <= b[1] * a[2]
    ELSE IF row[1].FontSize > 0 THEN <<6 * row[1].FontSize, 10>>
    ELSE <<72, 10>>

\* curr.x - (prev.x + len * w) > w * 0.5, every term times 2 * den(w)
ContractSpace(prev, curr, w) ==
    2 * w[2] * curr.X > 2 * w[2] * prev.X + 2 * Len(prev.S) * w[1] + w[1]

RECURSIVE ContractLine(_, _, _)
ContractLine(row, j, w) ==
    IF j > Len(row) THEN <<>>
    ELSE (IF j > 1 /\ ContractSpace(row[j - 1], row[j], w)
          THEN <<SP>> ELSE <<>>)
         \o row[j].S \o ContractLine(row, j + 1, w)

SimpleReturned ==
    /\ ret.op = "PageText"
    /\ ret.err = NoErr
    /\ LayoutOf(ret) = LayoutSimple

Run(str, x, size) == [S |-> Chars(str), X |-> x, Y |-> 200, FontSize |-> size]

\* the row holds a@-2, abcde@0 and a@x in some order: minCharWidth is 2
BoundaryRow(row, x) ==
    /\ Len(row) = 3
    /\ \E f \in {0, 4} :
          {row[1], row[2], row[3]}
              = {Run("a", -2, f), Run("abcde", 0, f), Run("a", x, f)}

C3_SpaceIffGapOverHalfWidth ==
    (SimpleReturned /\ Len(pages[1].rows) = 1 /\ Len(pages[1].rows[1]) > 0) =>
        LET row == pages[1].rows[1]
        IN  /\ ret.val \in {ContractLine(a, 1, ContractWidth(a)) :
                               a \in AscendingArrangements(row)}
            /\ BoundaryRow(row, 11) =>
                  ret.val = <<"a", "a", "b", "c", "d", "e", "a">>
            /\ BoundaryRow(row, 12) =>
                  ret.val = <<"a", "a", "b", "c", "d", "e", SP, "a">>

C3_Witness ==
    /\ SimpleReturned
    /\ Len(pages[1].rows) = 1
    /\ BoundaryRow(pages[1].rows[1], 11)
    /\ ContractWidth(<<Run("a", -2, 4), Run("abcde", 0, 4), Run("a", 11, 4)>>)
           = <<2, 1>>
    /\ ~Has(ret.val, SP)

-----------------------------------------------------------------------------
(* C4: the space decision of the Stream-Order policy.  For each adjacent   *)
(* pair (prev, curr) of the x-sorted row a space is written before         *)
(* curr.text iff                                                           *)
(*   curr.x - (prev.x + len(prev.text) * avgCharWidth) > avgCharWidth*0.3  *)
(* with avgCharWidth = fontSize * 0.5 and fontSize = prev.fontSize if      *)
(* positive, else curr.fontSize if positive, else 12.                      *)

ContractFontSize(prev, curr) ==
    CASE prev.FontSize > 0 -> prev.FontSize
      [] prev.FontSize <= 0 /\ curr.FontSize > 0 -> curr.FontSize
      [] OTHER -> 12

\* with f the font size: avgCharWidth = f / 2, the threshold is 3 f / 20
ContractRawSpace(prev, curr) ==
    LET f == ContractFontSize(prev, curr)
    IN  20 * curr.X > 20 * prev.X + 10 * Len(prev.S) * f + 3 * f

RECURSIVE ContractRawLine(_, _)
ContractRawLine(row, j) ==
    IF j > Len(row) THEN <<>>
    ELSE (IF j > 1 /\ ContractRawSpace(row[j - 1], row[j])
          THEN <<SP>> ELSE <<>>)
         \o row[j].S \o ContractRawLine(row, j + 1)

RawReturned ==
    /\ ret.op = "PageText"
    /\ ret.err = NoErr
    /\ LayoutOf(ret) = LayoutRaw

-----------------------------------------------------------------------------
(* C5: Determinism.  As claimed: in every layout mode two inputs holding   *)
(* the same runs in a different order within the row (for Physical, within *)
(* the page) give byte-identical output, also when runs share the same x.  *)
(* Under SpecPerm page 2 holds the runs of page 1 with two neighbours      *)
(* exchanged, and AllPages returns the text of both.                       *)

AllPagesReturned == ret.op = "AllPages" /\ ret.err = NoErr

C5_SameOutputInAnyOrder ==
    (AllPagesReturned /\ pages[1].rows # pages[2].rows) =>
        ret.val[1] = ret.val[2]

\* no two runs of one row (Simple, Raw) or of one Line (Physical) share x
NoSharedX(layout, rows) ==
    IF layout = LayoutPhysical
    THEN \A lines \in AssembledLines(StyledTextsOf(rows)) :
             \A i \in 1..Len(lines) : DistinctX(lines[i].texts)
    ELSE \A i \in 1..Len(rows) : DistinctX(rows[i])

(* C5 as amended: in every layout mode two inputs holding the same runs in *)
(* a different order give byte-identical output provided no two runs of    *)
(* one row (Simple, Raw) or of one Line (Physical) have the same x.        *)
C5_SameOutputWhenXDistinct ==
    (AllPagesReturned /\ NoSharedX(LayoutOf(ret), pages[1].rows)) =>
        ret.val[1] = ret.val[2]

C5_Witness ==
    /\ AllPagesReturned
    /\ LayoutOf(ret) = LayoutPhysical
    /\ pages[1].rows # pages[2].rows
    /\ Len(pages[1].rows[1]) = 3
    /\ NoSharedX(LayoutPhysical, pages[1].rows)
    /\ ~DistinctX(pages[1].rows[1])
    /\ ret.val[1] = ret.val[2]
    /\ Has(ret.val[1], "c")

-----------------------------------------------------------------------------
(* C6: Whole-document extraction is fail-fast.  AllPages and Text on an    *)
(* open document extract the pages in ascending order; if page k is the    *)
(* first whose extraction fails, no page after k is read, the error names  *)
(* page k and wraps the page's own error, and the value returned is empty. *)

FailingPages == {k \in 1..Len(pages) : pages[k].fault # "none"}

FirstFailing == CHOOSE k \in FailingPages : \A m \in FailingPages : k <= m

UpTo(n) == [i \in 1..n |-> i]

C6_FailFast ==
    (ret.op \in {"AllPages", "Text"} /\ ~closed) =>
        IF FailingPages = {}
        THEN ret.err = NoErr /\ ret.reads = UpTo(Len(pages))
        ELSE /\ ret.err.kind = "failedToExtract"
             /\ ret.err.page = FirstFailing
             /\ ret.err.cause.kind
                    = (IF pages[FirstFailing].fault = "null" THEN "pageIsNull"
                       ELSE "failedToGet")
             /\ ret.err.cause.page = FirstFailing
             /\ ret.val = <<>>
             /\ ret.reads = UpTo(FirstFailing)

C6_Witness ==
    /\ ret.op = "Text"
    /\ ~closed
    /\ Len(pages) = 3
    /\ pages[1].fault = "none" /\ pages[1].rows # <<>>
    /\ pages[2].fault = "rows"
    /\ pages[3].fault = "none" /\ pages[3].rows # <<>>
    /\ ret.err = ExtractErr(2, PageRowsErr(2))
    /\ ret.val = <<>>
    /\ ret.reads = <<1, 2>>

-----------------------------------------------------------------------------
(* C7: After Document.Close has returned, Text, AllPages, PageText in each *)
(* mode, Page.PlainText, TextByRow, StyledTexts, ContentStream,            *)
(* PhysicalLayoutText and Document.Page return ErrDocumentClosed without   *)
(* asking anything of the underlying reader: the reader is never read      *)
(* after it was closed.                                                    *)

ExtractionOps ==
    {"Text", "AllPages", "PageText", "PlainText", "TextByRow", "StyledTexts",
     "ContentStream", "PhysicalLayoutText", "Page"}

C7_ClosedRefusesBeforeReading ==
    /\ ~lateReads
    /\ readerCloses > 0 => closed
    /\ (closed /\ ret.op \in ExtractionOps) =>
           (ret.err = ErrDocumentClosed /\ ret.reads = <<>>)

C7_Witness ==
    /\ closed
    /\ readerCloses = 1
    /\ ret.op = "PageText"
    /\ LayoutOf(ret) = LayoutRaw
    /\ pages[ret.args.page].fault = "none"
    /\ pages[ret.args.page].rows # <<>>
    /\ ret.err = ErrDocumentClosed
    /\ ret.reads = <<>>

-----------------------------------------------------------------------------
(* C8: the Physical renderer's grid.  Each run starts at column            *)
(* clamp(floor(run.x / charWidth), 0, 79) of an 80-column grid: a run      *)
(* whose x maps to column 80 or more starts at column 79, a run with       *)
(* negative x starts at column 0, and the characters of a run that would   *)
(* land past column 79 are discarded: they are not wrapped onto another    *)
(* line and the call returns no error.  So the output has one line per     *)
(* Line, none longer than 80, and column pos of a line shows a character   *)
(* that a run of the Line puts there, or a space when no run covers it.    *)

\* the position of the first newline of s from position k on, or Len(s) + 1
RECURSIVE NextBreak(_, _)
NextBreak(s, k) ==
    IF k > Len(s) \/ s[k] = NL THEN k ELSE NextBreak(s, k + 1)

RECURSIVE LinesFrom(_, _)
LinesFrom(s, k) ==
    LET b == NextBreak(s, k)
    IN  IF b > Len(s) THEN <<SubSeq(s, k, Len(s))>>
        ELSE <<SubSeq(s, k, b - 1)>> \o LinesFrom(s, b + 1)

\* the lines of a text, the text cut at every newline
OutputLines(s) == LinesFrom(s, 1)

CoveredBy(texts, pos, pageWidth) ==
    {j \in 1..Len(texts) : pos \in GridCells(texts[j], pageWidth)}

CharAt(st, pos, pageWidth) == st.Text[pos - GridStart(st.X, pageWidth) + 1]

\* out is at most 80 long, every column covered by a run shows the
\* character a run of the Line puts there, every other column a space
LineOnGrid(out, texts, pageWidth) ==
    /\ Len(out) <= 80
    /\ \A j \in 1..Len(texts) : \A pos \in GridCells(texts[j], pageWidth) :
          /\ pos < Len(out)
          /\ \E k \in CoveredBy(texts, pos, pageWidth) :
                out[pos + 1] = CharAt(texts[k], pos, pageWidth)
    /\ \A p \in 1..Len(out) :
          out[p] # SP => CoveredBy(texts, p - 1, pageWidth) # {}

C8_ClampedAndTruncated ==
    (ret.op = "PageText" /\ LayoutOf(ret) = LayoutPhysical) =>
        LET sts == StyledTextsOf(pages[ret.args.page].rows)
            out == OutputLines(ret.val)
        IN  /\ ret.err = NoErr
            /\ sts # <<>> =>
                 \A lines \in AssembledLines(sts) :
                    /\ Len(out) = Len(lines)
                    /\ \A i \in 1..Len(lines) :
                          LineOnGrid(out[i], lines[i].texts, WidthOf(ret))

C8_Witness ==
    /\ PhysicalReturned
    /\ WidthOf(ret) = 10
    /\ pages[1].rows # <<>>
    /\ Len(pages[1].rows[1]) = 2
    /\ \A j \in 1..2 : Len(pages[1].rows[1][j].S) = 5
    /\ \E j \in 1..2 : pages[1].rows[1][j].X = 12
    /\ \E j \in 1..2 : pages[1].rows[1][j].X = -2
    /\ Len(OutputLines(ret.val)) = 2
    /\ \E i \in 1..2 :
          /\ Len(OutputLines(ret.val)[i]) = 80
          /\ OutputLines(ret.val)[i][80] = "a"
          /\ OutputLines(ret.val)[i][79] = SP
    /\ \E i \in 1..2 : OutputLines(ret.val)[i] = <<"a", "b", "c", "d", "e">>

-----------------------------------------------------------------------------
(* C9: the Line Assembler.  The runs are walked sorted by y descending     *)
(* then x ascending; a run joins the current Line iff it is within 2.0 of  *)
(* the Line's anchor, the y of the first run put on the Line, which is     *)
(* never recomputed.  So every run of every Line is within 2.0 of the      *)
(* Line's anchor, the first run of every later Line is more than 2.0 from  *)
(* the anchor of the Line before it, runs at 100.0 and 101.5 share a Line  *)
(* and runs at 100.0 and 103.0 are in separate Lines.  (y in half points)  *)

Occurrences(seq, x) == Cardinality({i \in 1..Len(seq) : seq[i] = x})

SameRuns(a, b) ==
    /\ Len(a) = Len(b)
    /\ \A i \in 1..Len(a) : Occurrences(a, a[i]) = Occurrences(b, a[i])

TopDownLeftRight(sts) ==
    \A i \in 1..(Len(sts) - 1) :
        \/ sts[i].Y > sts[i + 1].Y
        \/ sts[i].Y = sts[i + 1].Y /\ sts[i].X <= sts[i + 1].X

AnchoredLines(lines, sts) ==
    LET walk == Flatten([i \in 1..Len(lines) |-> lines[i].texts])
    IN  /\ SameRuns(walk, sts)
        /\ TopDownLeftRight(walk)
        /\ \A i \in 1..Len(lines) :
              /\ lines[i].texts # <<>>
              /\ lines[i].y = lines[i].texts[1].Y
              /\ \A j \in 1..Len(lines[i].texts) :
                    Abs(lines[i].y - lines[i].texts[j].Y) <= 4
              /\ i > 1 => Abs(lines[i - 1].y - lines[i].texts[1].Y) > 4

HeightsOf(sts) == {sts[i].Y : i \in 1..Len(sts)}

C9_LinesAnchoredAtFirstRun ==
    (ret.op = "PageText" /\ ret.err = NoErr
        /\ LayoutOf(ret) = LayoutPhysical
        /\ StyledTextsOf(pages[ret.args.page].rows) # <<>>) =>
        LET sts == StyledTextsOf(pages[ret.args.page].rows)
        IN  \A lines \in AssembledLines(sts) :
               /\ AnchoredLines(lines, sts)
               /\ Len(OutputLines(ret.val)) = Len(lines)
               /\ HeightsOf(sts) = {200, 203} => Len(lines) = 1
               /\ HeightsOf(sts) = {200, 206} => Len(lines) = 2

C9_Witness ==
    /\ PhysicalReturned
    /\ pages[1].rows # <<>>
    /\ Len(pages[1].rows[1]) = 3
    /\ HeightsOf(pages[1].rows[1]) = {200, 204, 206}
    /\ Len(OutputLines(ret.val)) = 2
    /\ Count(ret.val, "a") = 3

-----------------------------------------------------------------------------
(* C10: empty input gives the empty string and no error: a page with zero  *)
(* rows gives "" in Simple and in Raw mode, and a page with zero styled    *)
(* runs gives "" in Physical mode.                                         *)

C10_EmptyGivesEmpty ==
    ret.op = "PageText" =>
        LET rows == pages[ret.args.page].rows
        IN  /\ (LayoutOf(ret) \in {LayoutSimple, LayoutRaw} /\ rows = <<>>)
                  => (ret.val = <<>> /\ ret.err = NoErr)
            /\ (LayoutOf(ret) = LayoutPhysical /\ StyledTextsOf(rows) = <<>>)
                  => (ret.val = <<>> /\ ret.err = NoErr)

C10_Witness ==
    /\ ret.op = "PageText"
    /\ LayoutOf(ret) = LayoutRaw
    /\ pages[1].fault = "none"
    /\ pages[1].rows = <<>>
    /\ ret.val = <<>>
    /\ ret.err = NoErr
    /\ ret.reads = <<1>>

-----------------------------------------------------------------------------
(* C11: on success Text returns the per-page texts of AllPages, one per    *)
(* page in ascending page order, joined by the configured page separator,  *)
(* two newlines when no WithPageSeparator option is given: the separator   *)
(* stands between consecutive pages only, never before the first or after  *)
(* the last, and a document with zero pages gives the empty string.        *)

\* the separator of the last WithPageSeparator option, two newlines if none
ConfiguredSeparator(opts) ==
    LET given == {k \in 1..Len(opts) : opts[k].opt = "PageSeparator"}
    IN  IF given = {} THEN <<NL, NL>>
        ELSE opts[CHOOSE k \in given : \A m \in given : m <= k].sep

\* text 1, separator, text 2, ..., separator, text n
Interleaved(texts, sep) ==
    IF texts = <<>> THEN <<>>
    ELSE Flatten([i \in 1..(2 * Len(texts) - 1) |->
                     IF i % 2 = 1 THEN texts[(i + 1) \div 2] ELSE sep])

C11_TextJoinsPagesWithSeparator ==
    (ret.op = "Text" /\ ret.err = NoErr) =>
        /\ \E o \in AllPagesOutcomes(ret.args.opts) :
              /\ o.err = NoErr
              /\ Len(o.val) = Len(pages)
              /\ ret.val = Interleaved(o.val,
                                       ConfiguredSeparator(ret.args.opts))
        /\ pages = <<>> => ret.val = <<>>

C11_Witness ==
    /\ ret.op = "Text"
    /\ ret.err = NoErr
    /\ ret.args.opts = <<>>
    /\ Len(pages) = 3
    /\ pages[1].rows = <<<<RunA>>>>
    /\ Len(pages[2].rows) = 3
    /\ pages[3].rows = <<<<RunA>>>>
    /\ ret.val = <<"a", NL, NL, "a", "b", "c", NL, NL,
                   "a", "b", "c", "d", "e", NL, NL, "a">>

-----------------------------------------------------------------------------
(* C12: PageText dispatches on the configured layout mode: Simple runs     *)
(* Page.PlainText, Raw runs extractRawText, Physical runs                  *)
(* Page.PhysicalLayoutText with the configured page width; with no option  *)
(* the mode is Simple, a mode outside the three behaves as Simple, and of  *)
(* several WithLayout options the last one wins.                           *)

LastOption(opts, kind) ==
    LET given == {k \in 1..Len(opts) : opts[k].opt = kind}
    IN  IF given = {} THEN 0 ELSE CHOOSE k \in given : \A m \in given : m <= k

\* 0 Simple, 1 Raw, 2 Physical
ConfiguredMode(opts) ==
    LET k == LastOption(opts, "Layout")
    IN  IF k = 0 THEN 0
        ELSE IF opts[k].layout \in {0, 1, 2} THEN opts[k].layout
        ELSE 0

ConfiguredWidth(opts) ==
    LET k == LastOption(opts, "PageWidth")
    IN  IF k = 0 THEN 612 ELSE opts[k].width

SameOutcome(call, o) ==
    call.val = o.val /\ call.err = o.err /\ call.reads = o.reads

C12_DispatchOnLayout ==
    ret.op = "PageText" =>
        LET n == ret.args.page
            mode == ConfiguredMode(ret.args.opts)
        IN  /\ mode = 0 => \E o \in PagePlainText(n) : SameOutcome(ret, o)
            /\ mode = 1 => \E o \in extractRawText(n) : SameOutcome(ret, o)
            /\ mode = 2 =>
                  \E o \in PagePhysicalLayoutText(
                               n, ConfiguredWidth(ret.args.opts)) :
                      SameOutcome(ret, o)

C12_Witness ==
    /\ ret.op = "PageText"
    /\ ret.args.opts = <<WithLayout(LayoutPhysical), WithLayout(LayoutSimple)>>
    /\ ~closed
    /\ Len(pages[ret.args.page].rows) = 3
    /\ ret.err = NoErr
    /\ ret.val = <<"a", "b", "c", NL, NL, "a", "b", "c", "d", "e">>
    /\ \A o \in extractRawText(ret.args.page) : o.val # ret.val
    /\ \A o \in PagePhysicalLayoutText(ret.args.page, 612) : o.val # ret.val

-----------------------------------------------------------------------------
(* C13: in Simple and Raw mode the page text is the per-row lines joined   *)
(* with a newline, none after the last row: a row without runs gives an    *)
(* empty line that still counts, so a page of n >= 1 rows, its texts free  *)
(* of newlines, gives exactly n - 1 newline characters.                    *)

C13_RowsJoinedByNewline ==
    (JoinerReturned /\ pages[ret.args.page].rows # <<>>) =>
        LET rows == pages[ret.args.page].rows
            out == OutputLines(ret.val)
        IN  /\ Count(ret.val, NL) = Len(rows) - 1
            /\ Len(out) = Len(rows)
            /\ \A i \in 1..Len(rows) :
                  IF rows[i] = <<>> THEN out[i] = <<>>
                  ELSE \E a \in AscendingArrangements(rows[i]) :
                          StripWS(out[i]) = RowTexts(a)

C13_Witness ==
    /\ JoinerReturned
    /\ LayoutOf(ret) = LayoutSimple
    /\ pages[1].rows = <<<<>>, <<RunB, RunA>>, <<>>>>
    /\ ret.val = <<NL, "a", "b", "c", NL>>

-----------------------------------------------------------------------------
(* C14: in the Conservative policy minCharWidth of a row is the smallest   *)
(* strictly positive (curr.x - prev.x) / len(prev.text) over the           *)
(* consecutive pairs of the x-sorted row whose prev.text is non-empty;     *)
(* when there is none (one run, all runs at the same x, every prev.text    *)
(* empty) it is firstRun.fontSize * 0.6, or 12 * 0.6 when that font size   *)
(* is <= 0; so it is strictly positive when the space decisions are made.  *)

\* widths are <<num, den>> with den > 0
SameWidth(v, w) == v[1] * w[2] = w[1] * v[2]

WidthAsClaimed(items) ==
    LET w == MinCharWidth(items)
        adv == Advances(items)
    IN  /\ w[1] > 0 /\ w[2] > 0
        /\ adv # {} =>
              /\ \E a \in adv : SameWidth(w, a)
              /\ \A a \in adv : w[1] * a[2] <= a[1] * w[2]
        /\ (adv = {} /\ items[1].FontSize > 0) =>
              SameWidth(w, <<6 * items[1].FontSize, 10>>)
        /\ (adv = {} /\ items[1].FontSize <= 0) => SameWidth(w, <<72, 10>>)

C14_MinCharWidth ==
    (SimpleReturned /\ Len(pages[1].rows) = 1 /\ Len(pages[1].rows[1]) > 0) =>
        /\ \A items \in SortedItems(pages[1].rows[1]) : WidthAsClaimed(items)
        /\ \E items \in SortedItems(pages[1].rows[1]) :
              ret.val = ContractLine(items, 1, MinCharWidth(items))

\* a@0, bc@4, a@100: advances 4 and 48, minCharWidth 4, so bc ends at 12
\* and a space precedes the last a only
C14_Witness ==
    /\ SimpleReturned
    /\ Len(pages[1].rows) = 1
    /\ Len(pages[1].rows[1]) = 3
    /\ \E f \in {0, 10} :
          {pages[1].rows[1][j] : j \in 1..3}
              = {Run("a", 0, f), Run("bc", 4, f), Run("a", 100, f)}
    /\ \A items \in SortedItems(pages[1].rows[1]) :
          MinCharWidth(items) = <<4, 1>>
    /\ ret.val = <<"a", "b", "c", SP, "a">>

-----------------------------------------------------------------------------
(* C15: in the Physical renderer, when two runs of one Line write to the   *)
(* same grid column, the character rendered there is the one of the run    *)
(* that comes later in ascending-x order, for every pair of overlapping    *)
(* runs: every covered column shows the character of a covering run with   *)
(* the greatest x.                                                         *)

\* among the runs covering column pos, those no other lies to the right of
Rightmost(texts, pos, pageWidth) ==
    LET cov == CoveredBy(texts, pos, pageWidth)
    IN  {j \in cov : \A k \in cov : texts[k].X <= texts[j].X}

LastWriteWins(out, texts, pageWidth) ==
    \A j \in 1..Len(texts) : \A pos \in GridCells(texts[j], pageWidth) :
        /\ pos < Len(out)
        /\ \E k \in Rightmost(texts, pos, pageWidth) :
              out[pos + 1] = CharAt(texts[k], pos, pageWidth)

C15_LastWriteWinsInXOrder ==
    (PhysicalReturned /\ StyledTextsOf(pages[ret.args.page].rows) # <<>>) =>
        LET out == OutputLines(ret.val)
        IN  \A lines \in AssembledLines(
                             StyledTextsOf(pages[ret.args.page].rows)) :
               /\ Len(out) = Len(lines)
               /\ \A i \in 1..Len(lines) :
                     LastWriteWins(out[i], lines[i].texts, WidthOf(ret))

\* abcde@-2 lies higher and is grouped first, a@12 covers its column 1
C15_Witness ==
    /\ PhysicalReturned
    /\ WidthOf(ret) = 612
    /\ pages[1].rows # <<>>
    /\ Len(pages[1].rows[1]) = 2
    /\ \E j \in 1..2 :
          /\ pages[1].rows[1][j].X = -2 /\ pages[1].rows[1][j].Y = 203
          /\ Len(pages[1].rows[1][j].S) = 5
    /\ \E j \in 1..2 :
          /\ pages[1].rows[1][j].X = 12 /\ pages[1].rows[1][j].Y = 200
          /\ Len(pages[1].rows[1][j].S) = 1
    /\ ret.val = <<"a", "a", "c", "d", "e">>

-----------------------------------------------------------------------------
(* C16: the Physical renderer uses charWidth = pageWidth / 80, and a page  *)
(* width that is not supplied or is <= 0 is replaced by 612: rendering     *)
(* with no width, with 0 or with a negative width gives exactly the output *)
(* of rendering with 612, and charWidth is strictly positive in every call *)

PhysicalTexts(pageNum, pageWidth) ==
    {o.val : o \in PagePhysicalLayoutText(pageNum, pageWidth)}

WidthSupplied(call) == LastOption(call.args.opts, "PageWidth") # 0

C16_NonPositiveWidthIs612 ==
    PhysicalReturned =>
        LET n == ret.args.page
            sts == StyledTextsOf(pages[n].rows)
            out == OutputLines(ret.val)
        IN  /\ EffectivePageWidth(WidthOf(ret)) > 0
            /\ (~WidthSupplied(ret) \/ ConfiguredWidth(ret.args.opts) <= 0) =>
                  /\ ret.val \in PhysicalTexts(n, 612)
                  /\ PhysicalTexts(n, WidthOf(ret)) = PhysicalTexts(n, 612)
                  /\ sts # <<>> =>
                        \A lines \in AssembledLines(sts) :
                           \A i \in 1..Len(lines) :
                              LineOnGrid(out[i], lines[i].texts, 612)

C16_Witness ==
    /\ PhysicalReturned
    /\ WidthSupplied(ret)
    /\ ConfiguredWidth(ret.args.opts) = -1
    /\ pages[1].rows # <<>>
    /\ Len(pages[1].rows[1]) = 2
    /\ \E j \in 1..2 : pages[1].rows[1][j] = Run("abcde", 12, 10)
    /\ \E j \in 1..2 : pages[1].rows[1][j] = Run("a", -2, 10)
    /\ ret.val = <<"a", "a", "b", "c", "d", "e">>
    /\ ret.val \notin PhysicalTexts(1, 10)

-----------------------------------------------------------------------------
(* C17: page-level extraction calls can run in parallel on an open         *)
(* document: in every interleaving of concurrent PageText calls on pages   *)
(* of one document, with no Close running, no step writes shared state     *)
(* and every call returns what the same call returns when run alone.       *)

ReturnsAsAlone(w) ==
    \E o \in PageTextOutcomes(calls[w].page, calls[w].opts) :
        o.val = calls[w].val /\ o.err = calls[w].err

ParallelAsSequential ==
    \A w \in DOMAIN calls : calls[w].pc = "done" => ReturnsAsAlone(w)

C17_ParallelPageText ==
    /\ []ParallelAsSequential
    /\ [][UNCHANGED <<pages, closed, readerCloses>>]_vars

C17_Witness ==
    /\ DOMAIN calls = 1..MaxWorkers
    /\ \A w \in DOMAIN calls :
          /\ calls[w].pc = "done"
          /\ calls[w].overlap
          /\ calls[w].err = NoErr
          /\ calls[w].val # <<>>
    /\ calls[1].page # calls[2].page
    /\ calls[1].val # calls[2].val
    /\ ParallelAsSequential

-----------------------------------------------------------------------------
(* C18: in the Conservative policy no space is ever written between the    *)
(* adjacent pair that attains minCharWidth, its gap being exactly 0, so a  *)
(* row of exactly two runs at distinct x with a non-empty first text is    *)
(* concatenated without a space however far apart the runs are.  As        *)
(* claimed, moreover: a space can only appear in rows of three or more     *)
(* runs.                                                                   *)

\* the pairs (j, j + 1) of the sorted row whose advance is minCharWidth
AttainingPairs(items) ==
    {j \in 1..(Len(items) - 1) :
        /\ Len(items[j].S) > 0
        /\ items[j + 1].X > items[j].X
        /\ SameWidth(<<items[j + 1].X - items[j].X, Len(items[j].S)>>,
                     ContractWidth(items))}

\* the text written for the sorted row up to and including run j
WrittenUpTo(items, j) ==
    IF j = 0 THEN <<>>
    ELSE ContractLine(SubSeq(items, 1, j), 1, ContractWidth(items))

\* run j + 1 follows run j in the output with nothing between them
Adjoined(out, items, j) ==
    LET before == WrittenUpTo(items, j)
    IN  /\ SubSeq(out, 1, Len(before)) = before
        /\ SubSeq(out, Len(before) + 1, Len(before) + Len(items[j + 1].S))
               = items[j + 1].S

NoSpaceAtMinimum(out, row) ==
    \E items \in AscendingArrangements(row) :
        /\ out = ContractLine(items, 1, ContractWidth(items))
        /\ \A j \in AttainingPairs(items) : Adjoined(out, items, j)

TwoRunsApart(row) ==
    /\ Len(row) = 2
    /\ row[1].X # row[2].X
    /\ (IF row[1].X < row[2].X THEN row[1].S ELSE row[2].S) # <<>>

TwoRunsConcatenated(out, row) ==
    TwoRunsApart(row) =>
        out = (IF row[1].X < row[2].X THEN row[1].S \o row[2].S
               ELSE row[2].S \o row[1].S)

C18_SpaceNeedsThreeRuns ==
    (SimpleReturned /\ Len(pages[1].rows) = 1 /\ Len(pages[1].rows[1]) > 0) =>
        LET row == pages[1].rows[1]
        IN  /\ NoSpaceAtMinimum(ret.val, row)
            /\ TwoRunsConcatenated(ret.val, row)
            /\ Has(ret.val, SP) => Len(row) >= 3

\* a run of the row with no run to its left has an empty text
LeftmostEmpty(row) ==
    \E j \in 1..Len(row) :
        /\ row[j].S = <<>>
        /\ \A k \in 1..Len(row) : row[j].X <= row[k].X

(* C18 as amended: no space is written between the adjacent pair that      *)
(* attains minCharWidth, and a row of exactly two runs at distinct x with  *)
(* a non-empty first text is concatenated without a space however far      *)
(* apart the runs are; a space can appear only in rows of three or more    *)
(* runs or in a row of two runs whose first run has an empty text.         *)
C18_SpaceNeedsThreeRunsOrEmptyFirst ==
    (SimpleReturned /\ Len(pages[1].rows) = 1 /\ Len(pages[1].rows[1]) > 0) =>
        LET row == pages[1].rows[1]
        IN  /\ NoSpaceAtMinimum(ret.val, row)
            /\ TwoRunsConcatenated(ret.val, row)
            /\ Has(ret.val, SP) =>
                  Len(row) >= 3 \/ (Len(row) = 2 /\ LeftmostEmpty(row))

C18_Witness ==
    /\ SimpleReturned
    /\ Len(pages[1].rows) = 1
    /\ pages[1].rows[1] = <<Run("bc", 100, 10), Run("a", 0, 10)>>
    /\ AttainingPairs(<<Run("a", 0, 10), Run("bc", 100, 10)>>) = {1}
    /\ ret.val = <<"a", "b", "c">>

-----------------------------------------------------------------------------
(* C19: Document.Close is idempotent and the closed flag is monotone: over *)
(* any sequence of operations the underlying reader is closed at most      *)
(* once, every Close after the first returns nil without touching the      *)
(* reader, once IsClosed is true it stays true, and NumPages and Pages     *)
(* return the same values after Close as before it.                        *)

ClosedOnce ==
    /\ readerCloses <= 1
    /\ closed <=> readerCloses = 1
    /\ (ret.op = "Close" /\ ret.args.closedBefore) => ret.err = NoErr
    /\ ret.op = "IsClosed" => ret.val = closed
    /\ ret.op = "NumPages" => ret.val = Len(pages)
    /\ ret.op = "Pages" => ret.val = UpTo(Len(pages))

StaysClosed ==
    /\ closed => closed'
    /\ pages' = pages
    /\ (closed /\ ret'.op = "Close") =>
           (ret'.err = NoErr /\ readerCloses' = readerCloses)

C19_CloseIdempotent == []ClosedOnce /\ [][StaysClosed]_vars

C19_Witness ==
    /\ ret.op = "Close"
    /\ ret.args.closedBefore
    /\ ret.err = NoErr
    /\ closed
    /\ readerCloses = 1
    /\ Len(pages) = 3

-----------------------------------------------------------------------------
(* C20: every line of Physical output is at most 80 characters long and    *)
(* has no trailing space, the number of output lines is the number of      *)
(* Lines the assembler built, a Line whose runs all have an empty text     *)
(* giving an empty output line, for every set of runs and every page       *)
(* width.  As claimed, moreover: the output has no trailing newline.       *)

AllEmpty(texts) == \A j \in 1..Len(texts) : texts[j].Text = <<>>

TrimmedLines(val, sts) ==
    LET out == OutputLines(val)
    IN  \A lines \in AssembledLines(sts) :
           /\ Len(out) = Len(lines)
           /\ \A i \in 1..Len(lines) :
                 /\ Len(out[i]) <= 80
                 /\ out[i] # <<>> => out[i][Len(out[i])] # SP
                 /\ AllEmpty(lines[i].texts) => out[i] = <<>>

EndsWithNewline(val) == val # <<>> /\ val[Len(val)] = NL

C20_TrimmedNoTrailingNewline ==
    (PhysicalReturned /\ StyledTextsOf(pages[ret.args.page].rows) # <<>>) =>
        /\ TrimmedLines(ret.val, StyledTextsOf(pages[ret.args.page].rows))
        /\ ~EndsWithNewline(ret.val)

(* C20 as amended: every line of Physical output is at most 80 characters  *)
(* long and has no trailing space, the number of output lines is the       *)
(* number of Lines built, a Line whose runs all have an empty text giving  *)
(* an empty output line; the output ends with a newline only when the last *)
(* of two or more Lines renders empty, that newline being the separator    *)
(* before it.                                                              *)
C20_TrimmedLinesJoined ==
    (PhysicalReturned /\ StyledTextsOf(pages[ret.args.page].rows) # <<>>) =>
        LET sts == StyledTextsOf(pages[ret.args.page].rows)
        IN  /\ TrimmedLines(ret.val, sts)
            /\ EndsWithNewline(ret.val) =>
                  \A lines \in AssembledLines(sts) :
                     /\ Len(lines) >= 2
                     /\ AllEmpty(lines[Len(lines)].texts)

C20_Witness ==
    /\ PhysicalReturned
    /\ WidthOf(ret) = 10
    /\ pages[1].rows # <<>>
    /\ Len(pages[1].rows[1]) = 3
    /\ \E j \in 1..3 : /\ pages[1].rows[1][j].S = <<>>
                       /\ pages[1].rows[1][j].Y = 206
    /\ \A j \in 1..3 : pages[1].rows[1][j].S = <<>>
                          => pages[1].rows[1][j].Y = 206
    /\ Len(OutputLines(ret.val)) = 2
    /\ OutputLines(ret.val)[1] = <<>>
    /\ Len(OutputLines(ret.val)[2]) = 80
    /\ OutputLines(ret.val)[2][1] = "a"
    /\ OutputLines(ret.val)[2][80] = "a"

=============================================================================
